---- MODULE Spec2Model ----
(***************************************************************************)
(* Model of ffscreenrec's core: the recording session supervisor           *)
(* (core/recorder.py, class Recorder), the encoder detector                *)
(* (core/encoder_detect.py, class EncoderDetector) and the command builder *)
(* (core/command_builder.py, class CommandBuilder).                        *)
(*                                                                         *)
(* Each component has its specification: Spec (the session), SpecDetect    *)
(* (detection and its cache), SpecBestEncoder (get_best_encoder),          *)
(* SpecParseChunk (_parse_ffmpeg_output) and SpecBuildCommand              *)
(* (build_command).  The last three apply a function to every input of a   *)
(* bounded set, drawn in the initial state.                                *)
(*                                                                         *)
(* The Recorder lives on the GUI thread.  Its public methods and its       *)
(* QProcess slots run to completion there; a slot runs nested inside a     *)
(* method only during a blocking QProcess wait.  The wait of               *)
(* start_recording (waitForStarted) is part of the StartRecording step,    *)
(* with what the launch did as its input.  The two waits of stop_recording *)
(* (waitForFinished) are positions of the GUI thread: gui_pc is "loop" in  *)
(* the event loop, between calls, and "wait5" or "wait3" inside them.      *)
(*                                                                         *)
(* state_changed and error_occurred hold what the latest step emitted on   *)
(* the signal of that name, in order; published is the state the           *)
(* observers were told last.                                               *)
(***************************************************************************)
EXTENDS Integers, Sequences, FiniteSets, TLC

\* ---------------------------------------------------------------- bounds
MaxProcs == 2        \* QProcess objects one run may create
MaxFaults == 1       \* non-fatal errorOccurred notifications in one run
MaxDetectCalls == 3  \* detect_encoders / refresh calls in one run
MaxAvailable == 3    \* entries of the dictionary get_best_encoder reads
MaxCallers == 2          \* threads calling start_recording at the same time
MaxChunk == 3        \* tokens in one chunk of diagnostic output

\* ------------------------------------------------------------- constants
GracefulWaitMs == 5000     \* waitForFinished(5000) after the 'q' byte
TerminateWaitMs == 3000    \* waitForFinished(3000) after terminate()

\* RecorderState
IDLE == "idle"
RECORDING == "recording"
STOPPING == "stopping"
ERROR == "error"
RecorderState == {IDLE, RECORDING, STOPPING, ERROR}

None == 0
Procs == 1..MaxProcs

\* The threads that may call start_recording, and where a call is: not made
\* yet ("call"), past the guard of line 56 ("passed"), or returned ("done").
Threads == 1..MaxCallers
NotCalled == [pc |-> "call", ret |-> "none"]

\* Exit reports of an engine process: QProcess gives finished(exit_code,
\* exit_status); a CrashExit is preceded by errorOccurred(Crashed) and never
\* carries exit code 0.
ExitReports == { [crashed |-> FALSE, exit_code |-> 0],
                 [crashed |-> FALSE, exit_code |-> 1],
                 [crashed |-> TRUE,  exit_code |-> 9] }

\* RecordingConfig, reduced to the fields start_recording reads itself:
\* whether output_path can be created and written, the encoder descriptor
\* (NoEncoder for None, else a catalog name) and encoder_name.
NoEncoder == "none"
Cfg(w, e, n) == [ writable |-> w, encoder |-> e, encoder_name |-> n ]
Configs == { Cfg(TRUE, NoEncoder, "libx264"),    \* the default config
             Cfg(FALSE, NoEncoder, "libx264"),   \* unwritable directory
             Cfg(TRUE, NoEncoder, ""),           \* no encoder at all
             Cfg(TRUE, NoEncoder, "bogus"),      \* a name the catalog lacks
             Cfg(TRUE, "h264_nvenc", "") }       \* a descriptor, no name
NoConfig == [ writable |-> FALSE, encoder |-> NoEncoder, encoder_name |-> "" ]

VARIABLES
    state,            \* Recorder.state
    process,          \* Recorder.process: None or the QProcess it refers to
    config,           \* Recorder.config
    output_file,      \* Recorder.output_file: None or the file of launch p
    stop_requested,   \* Recorder._stop_requested
    state_changed,    \* what the latest step emitted on state_changed
    error_occurred,   \* what the latest step emitted on error_occurred
    published,        \* the state last emitted on state_changed, if any
    last_call,        \* the most recent method or slot of the Recorder
                      \* that ran: which, what it returned, the state at entry
    gui_pc,           \* position of the GUI thread
    pstate,           \* per QProcess: unborn/starting/running/finished/failed
    proc_log,         \* per QProcess: what stop_recording did to it, in order
    faults,           \* non-fatal fault notifications delivered so far
    poller,           \* per launch: the thread of _start_stats_thread
    callers,          \* per calling thread: its position in start_recording
    available_encoders, \* EncoderDetector.available_encoders (its keys)
    detected,           \* EncoderDetector._detected
    detect_ret,         \* keys of the dict the last detect_encoders returned
    listing_runs,       \* runs of "ffmpeg -encoders" in the latest call
    smoke_runs,         \* encoders _test_encoder ran on in the latest call
    detect_calls,       \* detect_encoders / refresh calls so far
    last_detect,        \* the most recent detector call and its inputs
    available_list,     \* names of available_encoders.values(), in dict order
    best_query,         \* arguments of the latest get_best_encoder call
    best_ret,           \* what the latest get_best_encoder call returned
    stats,              \* Recorder.stats
    chunk,              \* the text the latest _parse_ffmpeg_output was given
    build_config,       \* the RecordingConfig given to build_command
    build_cmd           \* what build_command returned

recVars == << state, process, config, output_file, stop_requested,
              state_changed, error_occurred, published >>
thrVars == << poller, callers >>
envVars == << last_call, gui_pc, pstate, proc_log, faults, thrVars >>
detVars == << available_encoders, detected, detect_ret, listing_runs,
              smoke_runs, detect_calls, last_detect >>
bestVars == << available_list, best_query, best_ret >>
parseVars == << stats, chunk >>
buildVars == << build_config, build_cmd >>
funVars == << bestVars, parseVars, buildVars >>
vars == << state, process, config, output_file, stop_requested,
           state_changed, error_occurred, published, last_call, gui_pc,
           pstate, proc_log, faults, poller, callers, available_encoders, detected, detect_ret,
           listing_runs, smoke_runs, detect_calls, last_detect,
           available_list, best_query, best_ret, stats, chunk, build_config,
           build_cmd >>

\* The Recorder's fields as one record, so that the methods and slots can be
\* written as functions from the fields before to the fields after.  The two
\* signals start empty: they collect what one step emits, in order.
Rec ==
    [ state |-> state, process |-> process, config |-> config,
      output_file |-> output_file, stop_requested |-> stop_requested,
      state_changed |-> << >>, error_occurred |-> << >>,
      published |-> published ]

SetRec(r) ==
    /\ state' = r.state
    /\ process' = r.process
    /\ config' = r.config
    /\ output_file' = r.output_file
    /\ stop_requested' = r.stop_requested
    /\ state_changed' = r.state_changed
    /\ error_occurred' = r.error_occurred
    /\ published' = r.published

\* A step that runs no code of the Recorder: nothing changes, nothing is
\* emitted.
RecorderIdle == SetRec(Rec)

\* state_changed.emit(self.state): the log keeps, with the emitted state, the
\* process handle the observers can see at that moment.
EmitState(r) ==
    [r EXCEPT !.state_changed =
                  Append(@, [state |-> r.state, process |-> r.process]),
              !.published = r.state]
\* error_occurred.emit(f"{msg}{detail}")
EmitError(r, msg, detail) ==
    [r EXCEPT !.error_occurred = Append(@, << msg, detail >>)]

\* ----------------------------------------------------------- the catalog
\* EncoderDetector.ENCODERS: name -> <<codec, vendor>>.
ENCODERS ==
    [ n \in { "h264_nvenc", "hevc_nvenc", "av1_nvenc", "h264_qsv", "hevc_qsv",
              "av1_qsv", "h264_amf", "hevc_amf", "av1_amf", "libx264",
              "libx265", "libaom-av1", "libsvtav1" } |->
        CASE n = "h264_nvenc" -> [codec |-> "h264", vendor |-> "nvidia"]
          [] n = "hevc_nvenc" -> [codec |-> "h265", vendor |-> "nvidia"]
          [] n = "av1_nvenc"  -> [codec |-> "av1",  vendor |-> "nvidia"]
          [] n = "h264_qsv"   -> [codec |-> "h264", vendor |-> "intel"]
          [] n = "hevc_qsv"   -> [codec |-> "h265", vendor |-> "intel"]
          [] n = "av1_qsv"    -> [codec |-> "av1",  vendor |-> "intel"]
          [] n = "h264_amf"   -> [codec |-> "h264", vendor |-> "amd"]
          [] n = "hevc_amf"   -> [codec |-> "h265", vendor |-> "amd"]
          [] n = "av1_amf"    -> [codec |-> "av1",  vendor |-> "amd"]
          [] n = "libx264"    -> [codec |-> "h264", vendor |-> "software"]
          [] n = "libx265"    -> [codec |-> "h265", vendor |-> "software"]
          [] n = "libaom-av1" -> [codec |-> "av1",  vendor |-> "software"]
          [] n = "libsvtav1"  -> [codec |-> "av1",  vendor |-> "software"] ]

\* CommandBuilder._get_encoder_by_name: ENCODERS.get(name), NoEncoder for None.
GetEncoderByName(name) ==
    IF name \in DOMAIN ENCODERS THEN name ELSE NoEncoder

\* ------------------------------------------------- Recorder: the methods
\* The guard of start_recording (line 56) and of stop_recording (line 107).
\* Variant: the guard only refuses a session that is Recording.
CanStart_OnlyRefusesRecording(st) == st # RECORDING
CanStart(st) == st = IDLE
\* Variant: the guard only refuses a session that is Idle.
CanStop_OnlyRefusesIdle(st) == st # IDLE
CanStop(st) == st = RECORDING

\* Recorder._validate_config: "ok", or the error it emits before it returns
\* False.  The marker-file probe succeeds exactly when the directory can be
\* created and written.
ValidateConfig(cfg) ==
    IF ~cfg.writable THEN "Output path not writable"
    ELSE IF cfg.encoder = NoEncoder /\ cfg.encoder_name = ""
         THEN "No encoder specified"
         ELSE "ok"

\* Recorder._handle_error: the slot of QProcess.errorOccurred.
HandleError(r, error) ==
    EmitError(EmitState([r EXCEPT !.state = ERROR]), "Process error: ", error)

\* Variant: the slot goes to Idle whatever the exit code is.
HandleFinished_IgnoresExitCode(r, exit_code) ==
    [EmitState([r EXCEPT !.state = IDLE]) EXCEPT !.process = None]

\* Recorder._handle_finished: the slot of QProcess.finished.
HandleFinished(r, exit_code) ==
    LET r1 == IF r.stop_requested \/ exit_code = 0
              THEN [r EXCEPT !.state = IDLE]
              ELSE EmitError([r EXCEPT !.state = ERROR],
                             "FFmpeg exited with code ", ToString(exit_code))
    IN  [EmitState(r1) EXCEPT !.process = None]

\* What start_recording does once the guard and the validation have passed
\* (lines 65-99), for QProcess p and each thing the launch can do within
\* waitForStarted(5000):
\*   "started" - the process reports started: Recording is entered;
\*   "failed"  - QProcess raises errorOccurred(FailedToStart), whose slot runs
\*               nested, and waitForStarted returns False;
\*   "timeout" - nothing is reported in time (QProcess records Timedout
\*               without raising errorOccurred); the process stays launched;
\*   "raised"  - an exception before the spawn (mkdir of the parent), caught
\*               at line 101.
LaunchOutcomes == {"started", "failed", "timeout", "raised"}

Launch(r, cfg, p, outcome) ==
    LET r1 == [r EXCEPT !.config = cfg, !.output_file = p]
        r2 == [r1 EXCEPT !.process = p]
    IN  CASE outcome = "raised" ->
               EmitError(r1, "Failed to start recording: ", "OSError")
          [] outcome = "failed" ->
               EmitError(HandleError(r2, "FailedToStart"),
                         "Failed to start FFmpeg process", "")
          [] outcome = "timeout" ->
               EmitError(r2, "Failed to start FFmpeg process", "")
          [] outcome = "started" ->
               [EmitState([r2 EXCEPT !.state = RECORDING])
                    EXCEPT !.stop_requested = FALSE]

\* The automatic reset at the top of start_recording (lines 51-54).
ResetFromError(r) ==
    IF r.state = ERROR THEN [r EXCEPT !.state = IDLE] ELSE r

\* The QProcess the next launch creates.
Spawned == { p \in Procs : pstate[p] # "unborn" }
NextProc == Cardinality(Spawned) + 1

\* What the launch leaves of QProcess p.
AfterLaunch(p, outcome) ==
    [pstate EXCEPT ![p] =
        CASE outcome = "started" -> "running"
          [] outcome = "failed" -> "failed"
          [] outcome = "timeout" -> "starting"
          [] outcome = "raised" -> "unborn"]

\* Recorder._start_stats_thread, which only a start that succeeded reaches
\* (line 96): the thread of launch p is created about to evaluate the
\* condition of its loop.
StartStatsThread(p, outcome) ==
    IF outcome = "started" THEN [poller EXCEPT ![p] = "check"] ELSE poller

\* Recorder.start_recording(config), with the launch's outcome as input.
StartRecording(cfg, outcome) ==
    /\ gui_pc = "loop"
    /\ LET r0 == ResetFromError(Rec)
           v == ValidateConfig(cfg)
           p == NextProc
       IN  IF ~CanStart(r0.state)
           THEN /\ SetRec(r0)
                /\ last_call' = [op |-> "start", ret |-> FALSE, at |-> state]
                /\ UNCHANGED << pstate, poller >>
           ELSE IF v # "ok"
           THEN /\ SetRec(EmitError(r0, v, ""))
                /\ last_call' = [op |-> "start", ret |-> FALSE, at |-> state]
                /\ UNCHANGED << pstate, poller >>
           ELSE /\ p \in Procs
                /\ SetRec(Launch(r0, cfg, p, outcome))
                /\ last_call' = [op |-> "start", ret |-> (outcome = "started"),
                                 at |-> state]
                /\ pstate' = AfterLaunch(p, outcome)
                /\ poller' = StartStatsThread(p, outcome)
    /\ UNCHANGED << gui_pc, proc_log, faults, callers >>
    /\ UNCHANGED << detVars, funVars >>

\* The escalation of stop_recording: what it does when waitForFinished(5000)
\* returns False (line 123), and when waitForFinished(3000) then returns False
\* (line 125).
\* Variant: the graceful wait is followed by kill() at once.
OnGracefulTimeout_KillAtOnce == [send |-> "kill", next |-> "loop"]
OnGracefulTimeout == [send |-> "terminate", next |-> "wait3"]
OnTerminateTimeout == [send |-> "kill", next |-> "loop"]

\* An entry of proc_log: what was done to the process and, for a wait that
\* timed out, how long it lasted.
Did(what) == [did |-> what, ms |-> 0]
TimedOut(ms) == [did |-> "timeout", ms |-> ms]

LogTo(p, entries) == [proc_log EXCEPT ![p] = @ \o entries]

\* Recorder.stop_recording(), up to its first wait.  last_call.ret is FALSE
\* when the call only logged its warning and returned.  wrote says whether
\* process.write(b'q') put the byte on the process's input channel; the
\* method does not look at what write returns.
StopRecording(wrote) ==
    /\ gui_pc = "loop"
    /\ IF ~CanStop(state)
       THEN /\ RecorderIdle
            /\ last_call' = [op |-> "stop", ret |-> FALSE, at |-> state]
            /\ UNCHANGED << gui_pc, proc_log >>
       ELSE /\ SetRec([EmitState([Rec EXCEPT !.state = STOPPING])
                          EXCEPT !.stop_requested = TRUE])
            /\ last_call' = [op |-> "stop", ret |-> TRUE, at |-> state]
            /\ IF process # None
               THEN /\ proc_log' = LogTo(process,
                                       << IF wrote THEN Did("write_q")
                                          ELSE Did("write_q_failed") >>)
                    /\ gui_pc' = "wait5"
               ELSE UNCHANGED << gui_pc, proc_log >>
    /\ UNCHANGED << pstate, faults >>
    /\ UNCHANGED << detVars, funVars, thrVars >>

\* waitForFinished(5000) returns False: the process is still running.
GracefulWaitTimeout ==
    /\ gui_pc = "wait5"
    /\ proc_log' = LogTo(process, << TimedOut(GracefulWaitMs),
                                   Did(OnGracefulTimeout.send) >>)
    /\ gui_pc' = OnGracefulTimeout.next
    /\ UNCHANGED << last_call, pstate, faults >>
    /\ RecorderIdle
    /\ UNCHANGED << detVars, funVars, thrVars >>

\* waitForFinished(3000) returns False: the process is still running.
TerminateWaitTimeout ==
    /\ gui_pc = "wait3"
    /\ proc_log' = LogTo(process, << TimedOut(TerminateWaitMs),
                                   Did(OnTerminateTimeout.send) >>)
    /\ gui_pc' = OnTerminateTimeout.next
    /\ UNCHANGED << last_call, pstate, faults >>
    /\ RecorderIdle
    /\ UNCHANGED << detVars, funVars, thrVars >>

\* ---------------------------------------------- the engine process's events
\* QProcess delivers a process's notifications on the GUI thread: from the
\* event loop, or from inside a wait on that very process.
Deliverable(p) ==
    \/ gui_pc = "loop"
    \/ gui_pc \in {"wait5", "wait3"} /\ p = process

\* The process exits.  QProcess raises errorOccurred(Crashed) first when it
\* crashed, then finished(exit_code, exit_status); a wait on it returns True.
ProcessDied(p, rep) ==
    /\ pstate[p] = "running"
    /\ Deliverable(p)
    /\ LET r1 == IF rep.crashed THEN HandleError(Rec, "Crashed") ELSE Rec
       IN  SetRec(HandleFinished(r1, rep.exit_code))
    /\ pstate' = [pstate EXCEPT ![p] = "finished"]
    /\ proc_log' = LogTo(p, << Did("exited") >>)
    /\ gui_pc' = "loop"
    /\ last_call' = [op |-> "finished", ret |-> FALSE, at |-> state]
    /\ UNCHANGED faults
    /\ UNCHANGED << detVars, funVars, thrVars >>

\* A fault of a running process that is not its exit (a failed write of the
\* quit byte, a failed read of its diagnostic stream).
FaultKinds == {"WriteError"}

ProcessFault(p, kind) ==
    /\ pstate[p] = "running"
    /\ Deliverable(p)
    /\ faults < MaxFaults
    /\ faults' = faults + 1
    /\ SetRec(HandleError(Rec, kind))
    /\ last_call' = [op |-> "error", ret |-> FALSE, at |-> state]
    /\ UNCHANGED << gui_pc, pstate, proc_log >>
    /\ UNCHANGED << detVars, funVars, thrVars >>

\* A process whose launch timed out reports started after all.  No slot is
\* connected to QProcess.started.
LateStarted(p) ==
    /\ pstate[p] = "starting"
    /\ gui_pc = "loop"
    /\ pstate' = [pstate EXCEPT ![p] = "running"]
    /\ UNCHANGED << last_call, gui_pc, proc_log, faults >>
    /\ RecorderIdle
    /\ UNCHANGED << detVars, funVars, thrVars >>

\* A process whose launch timed out fails to start after all.
LateFailedToStart(p) ==
    /\ pstate[p] = "starting"
    /\ gui_pc = "loop"
    /\ pstate' = [pstate EXCEPT ![p] = "failed"]
    /\ SetRec(HandleError(Rec, "FailedToStart"))
    /\ last_call' = [op |-> "error", ret |-> FALSE, at |-> state]
    /\ UNCHANGED << gui_pc, proc_log, faults >>
    /\ UNCHANGED << detVars, funVars, thrVars >>

\* ------------------------------------------------------ EncoderDetector
\* What the engine can answer to one detection run.  reachable is
\* FFmpegLocator.is_available() at the call; listing is how "ffmpeg -encoders"
\* ends ("ok": return code 0, "nonzero": another return code, "raised":
\* subprocess.run raises); advertised are the video encoders its output
\* lists; usable are the encoders whose smoke test returns code 0 in time.
Advertisable == {"h264_nvenc", "libx264", "mpeg4"}
ListingOutcomes == {"ok", "nonzero", "raised"}

SoftwareEncoders ==
    { n \in DOMAIN ENCODERS : ENCODERS[n].vendor = "software" }

\* Variant: detection returns what it found and nothing more.
ForceBaseline_Skipped(found) == found

\* Lines 186-188: libx264 is put in when detection did not find it.
ForceBaseline(found) ==
    IF "libx264" \notin found THEN found \cup {"libx264"} ELSE found

\* The fallback of lines 149-155 when the engine is unreachable.
Unreachable(d) ==
    [d EXCEPT !.available_encoders = SoftwareEncoders,
              !.ret = SoftwareEncoders]

\* Variant: a listed encoder counts as usable without its smoke test.
TestEncoder_AlwaysPasses(encoder_name, usable) == TRUE

\* EncoderDetector._test_encoder: TRUE only when the one-frame encode returns
\* code 0 within the 5 seconds; a timeout, another return code and any
\* exception give FALSE.  usable is the set of names the engine encodes with.
TestEncoder(encoder_name, usable) == encoder_name \in usable

\* EncoderDetector.detect_encoders on the detector's fields d.
DetectEncoders(d, reachable, listing, advertised, usable) ==
    LET d0 == [d EXCEPT !.listing_runs = 0, !.smoke_runs = {}]
        cand == IF listing = "ok"
                THEN { n \in DOMAIN ENCODERS : n \in advertised }
                ELSE {}
        found == ForceBaseline({ n \in cand : TestEncoder(n, usable) })
    IN  IF d0.detected
        THEN [d0 EXCEPT !.ret = d0.available_encoders]
        ELSE IF ~reachable
        THEN Unreachable(d0)
        ELSE [d0 EXCEPT !.available_encoders = found,
                        !.detected = TRUE,
                        !.listing_runs = 1,
                        !.smoke_runs = cand,
                        !.ret = found]

Det ==
    [ available_encoders |-> available_encoders, detected |-> detected,
      ret |-> detect_ret, listing_runs |-> listing_runs,
      smoke_runs |-> smoke_runs ]

SetDet(d) ==
    /\ available_encoders' = d.available_encoders
    /\ detected' = d.detected
    /\ detect_ret' = d.ret
    /\ listing_runs' = d.listing_runs
    /\ smoke_runs' = d.smoke_runs

DetectInput(op, reachable, listing, advertised, usable) ==
    [ op |-> op, reachable |-> reachable, listing |-> listing,
      advertised |-> advertised, usable |-> usable ]

\* A call of detect_encoders().
Detect(reachable, listing, advertised, usable) ==
    /\ detect_calls < MaxDetectCalls
    /\ detect_calls' = detect_calls + 1
    /\ SetDet(DetectEncoders(Det, reachable, listing, advertised, usable))
    /\ last_detect' =
           DetectInput("detect", reachable, listing, advertised, usable)
    /\ UNCHANGED recVars
    /\ UNCHANGED << envVars, funVars >>

\* A call of refresh(): _detected is cleared, then detect_encoders() runs.
Refresh(reachable, listing, advertised, usable) ==
    /\ detect_calls < MaxDetectCalls
    /\ detect_calls' = detect_calls + 1
    /\ SetDet(DetectEncoders([Det EXCEPT !.detected = FALSE],
                             reachable, listing, advertised, usable))
    /\ last_detect' =
           DetectInput("refresh", reachable, listing, advertised, usable)
    /\ UNCHANGED recVars
    /\ UNCHANGED << envVars, funVars >>

\* ------------------------------------------- EncoderDetector: selection
\* The order of the priority list in get_best_encoder.
VendorPriority_AmdFirst == << "amd", "nvidia", "intel", "software" >>

VendorPriority == << "nvidia", "intel", "amd", "software" >>

\* The codec values a caller can ask for (CodecType).
CodecTypes == {"h264", "h265", "hevc", "av1"}

\* EncoderDetector.get_available_by_codec on a detector that has detected:
\* the values of available_encoders with that codec, in dictionary order.
GetAvailableByCodec(avail, codec) ==
    SelectSeq(avail, LAMBDA n : ENCODERS[n].codec = codec)

\* EncoderDetector.get_best_encoder; NoEncoder stands for None.
GetBestEncoder(avail, codec, prefer_hardware) ==
    LET encoders == GetAvailableByCodec(avail, codec)
        OfVendor(v) == SelectSeq(encoders, LAMBDA n : ENCODERS[n].vendor = v)
        hits == { i \in 1..Len(VendorPriority) :
                      OfVendor(VendorPriority[i]) # << >> }
        first == CHOOSE i \in hits : \A j \in hits : i <= j
    IN  IF encoders = << >> THEN NoEncoder
        ELSE IF prefer_hardware /\ hits # {}
        THEN Head(OfVendor(VendorPriority[first]))
        ELSE Head(encoders)

\* The dictionaries get_best_encoder is applied to: up to MaxAvailable
\* catalog entries in any insertion order.
BestNames ==
    {"h264_nvenc", "hevc_nvenc", "h264_qsv", "h264_amf", "libx264",
     "libaom-av1", "libsvtav1"}
AvailableLists ==
    UNION { { l \in [1..k -> BestNames] :
                  \A i, j \in 1..k : i # j => l[i] # l[j] } :
            k \in 0..MaxAvailable }

NoQuery == [codec |-> "none", prefer_hardware |-> FALSE]

\* A call of get_best_encoder(codec, prefer_hardware).
BestEncoderCall(codec, prefer_hardware) ==
    /\ best_query' = [codec |-> codec, prefer_hardware |-> prefer_hardware]
    /\ best_ret' = GetBestEncoder(available_list, codec, prefer_hardware)
    /\ UNCHANGED available_list
    /\ UNCHANGED << recVars, envVars, detVars, parseVars, buildVars >>

\* ------------------------------------------------- Recorder: telemetry
\* RecorderStats() as constructed, and the stats of a session under way.
FreshStats ==
    [ duration |-> 0, file_size |-> 0, dropped_frames |-> 0, fps |-> 0,
      bitrate |-> 0, encoder_used |-> "" ]
RunningStats ==
    [ duration |-> 10, file_size |-> 4096, dropped_frames |-> 2, fps |-> 30,
      bitrate |-> 800, encoder_used |-> "libx264" ]
PriorStats == {FreshStats, RunningStats}

\* A chunk of diagnostic text is a sequence of blank-separated tokens
\* "key=value"; "nl" is a line break.  ok says that the value has the shape
\* the regular expression of that key asks for: digits for fps, frame, dup
\* and drop, digits followed by "kbits/s" for bitrate, H:M:S.fraction for
\* time.  "bitrate=N/A" and "time=N/A" are the tokens that are not ok.
Tok(key, ok, h, m, val) ==
    [ key |-> key, ok |-> ok, h |-> h, m |-> m, val |-> val ]
ChunkTokens ==
    { Tok("frame", TRUE, 0, 0, 100), Tok("fps", TRUE, 0, 0, 60),
      Tok("fps", TRUE, 0, 0, 25), Tok("bitrate", TRUE, 0, 0, 1200),
      Tok("bitrate", FALSE, 0, 0, 0), Tok("time", TRUE, 0, 1, 5),
      Tok("time", FALSE, 0, 0, 0), Tok("dup", TRUE, 0, 0, 0),
      Tok("drop", TRUE, 0, 0, 7), Tok("drop", TRUE, 0, 0, 9),
      Tok("speed", FALSE, 0, 0, 1), Tok("nl", FALSE, 0, 0, 0) }
Chunks == UNION { [1..k -> ChunkTokens] : k \in 0..MaxChunk }
NoChunk == << Tok("none", FALSE, 0, 0, 0) >>

\* re.search of a one-token pattern: the position of the leftmost token of
\* that key whose value has the shape, 0 for no match.
Search(text, key) ==
    LET hits == { i \in 1..Len(text) : text[i].key = key /\ text[i].ok }
    IN  IF hits = {} THEN 0 ELSE CHOOSE i \in hits : \A j \in hits : i <= j

\* re.search of frame=..dup=..drop=: "." does not match a line break, so the
\* three tokens are on one line; the match starts at the leftmost frame token
\* that has them, and the greedy ".*" gives group 3 the last drop token of
\* that line that follows a dup token.  The position of group 3, 0 for no
\* match.
SearchDrop(text) ==
    LET SameLine(i, k) == \A x \in i..k : text[x].key # "nl"
        Is(i, key) == text[i].key = key /\ text[i].ok
        Ends(i) == { k \in i..Len(text) :
                       /\ Is(k, "drop")
                       /\ SameLine(i, k)
                       /\ \E j \in (i + 1)..(k - 1) : Is(j, "dup") }
        starts == { i \in 1..Len(text) : Is(i, "frame") /\ Ends(i) # {} }
        start == CHOOSE i \in starts : \A j \in starts : i <= j
    IN  IF starts = {} THEN 0
        ELSE CHOOSE k \in Ends(start) : \A j \in Ends(start) : j <= k

\* Variant: a field whose pattern does not match is reset.
SetIfMatch_ElseZero(old, match, new) == IF match # 0 THEN new ELSE 0

\* "if m: self.stats.field = value": the field keeps its value otherwise.
SetIfMatch(old, match, new) == IF match # 0 THEN new ELSE old

\* Recorder._parse_ffmpeg_output on the stats st.
ParseFfmpegOutput(st, text) ==
    LET fps_match == Search(text, "fps")
        bitrate_match == Search(text, "bitrate")
        time_match == Search(text, "time")
        drop_match == SearchDrop(text)
        At(i) == IF i = 0 THEN Tok("none", FALSE, 0, 0, 0) ELSE text[i]
    IN  [ st EXCEPT
            !.fps = SetIfMatch(@, fps_match, At(fps_match).val),
            !.bitrate = SetIfMatch(@, bitrate_match, At(bitrate_match).val),
            !.duration = SetIfMatch(@, time_match,
                             At(time_match).h * 3600 + At(time_match).m * 60
                                 + At(time_match).val),
            !.dropped_frames = SetIfMatch(@, drop_match, At(drop_match).val) ]

\* One chunk goes through _parse_ffmpeg_output.
ParseChunk(text) ==
    /\ chunk = NoChunk
    /\ chunk' = text
    /\ stats' = ParseFfmpegOutput(stats, text)
    /\ UNCHANGED << recVars, envVars, detVars, bestVars, buildVars >>

\* -------------------------------------------------------- CommandBuilder
\* RecordingConfig() with its defaults.  region and scale are << >> for None,
\* segment_minutes is 0 for None (both are false in "if"), encoder is
\* NoEncoder for None and the catalog name of the descriptor otherwise.
\* monitor_index, output_path and file_pattern are not read by build_command.
RecordingConfig ==
    [ region |-> << >>, fps |-> 60, show_cursor |-> TRUE,
      encoder |-> NoEncoder, encoder_name |-> "libx264",
      preset |-> "veryfast", rate_control |-> "cbr", bitrate |-> 8000,
      max_bitrate |-> 8000, buffer_size |-> 16000, crf |-> 23,
      keyframe_interval |-> 120, profile |-> "high", scale |-> << >>,
      system_audio_enabled |-> TRUE, system_audio_device |-> "default",
      mic_enabled |-> FALSE, mic_device |-> "", audio_bitrate |-> 160,
      audio_sample_rate |-> 48000, audio_channels |-> 2,
      normalize_audio |-> TRUE, container |-> "mp4", segment_minutes |-> 0 ]

RateControl == {"cbr", "vbr", "crf", "cq"}

\* f"{n}k"
Kbps(n) == ToString(n) \o "k"

\* CommandBuilder._build_video_input
BuildVideoInput(cfg) ==
    << "-f", "gdigrab", "-framerate", ToString(cfg.fps) >>
    \o (IF cfg.region # << >>
        THEN << "-offset_x", ToString(cfg.region[1]),
                "-offset_y", ToString(cfg.region[2]),
                "-video_size",
                ToString(cfg.region[3]) \o "x" \o ToString(cfg.region[4]) >>
        ELSE << >>)
    \o << "-draw_mouse", IF cfg.show_cursor THEN "1" ELSE "0" >>
    \o << "-i", "desktop" >>

\* "".join([f"[{i}:a]" for i in audio_inputs])
RECURSIVE InputsStr(_)
InputsStr(audio_inputs) ==
    IF audio_inputs = << >> THEN ""
    ELSE "[" \o ToString(Head(audio_inputs)) \o ":a]"
             \o InputsStr(Tail(audio_inputs))

\* CommandBuilder._build_audio_inputs: the arguments, the filter graph
\* expression ("" for none) and the indices of the audio inputs it added.
BuildAudioInputs(cfg) ==
    LET sys == /\ cfg.system_audio_enabled
               /\ ~(cfg.system_audio_device = "default"
                      \/ cfg.system_audio_device = "")
        sys_args == IF sys
                    THEN << "-f", "dshow", "-i",
                            "audio=" \o cfg.system_audio_device >>
                    ELSE << >>
        sys_inputs == IF sys THEN << 1 >> ELSE << >>
        mic == cfg.mic_enabled /\ cfg.mic_device # ""
        mic_args == IF mic
                    THEN << "-f", "wasapi", "-i", cfg.mic_device >>
                    ELSE << >>
        audio_inputs == IF mic
                        THEN Append(sys_inputs, Len(sys_inputs) + 1)
                        ELSE sys_inputs
        mix == InputsStr(audio_inputs) \o "amix=inputs="
                   \o ToString(Len(audio_inputs))
                   \o ":duration=longest:dropout_transition=3"
        filter_complex ==
            IF Len(audio_inputs) > 1
            THEN mix \o (IF cfg.normalize_audio
                         THEN ",dynaudnorm=f=150:g=31" ELSE "")
                     \o "[aout]"
            ELSE ""
    IN  [ args |-> sys_args \o mic_args, filter_complex |-> filter_complex,
          audio_inputs |-> audio_inputs ]

\* CommandBuilder._build_video_filter
BuildVideoFilter(cfg) ==
    IF cfg.scale # << >>
    THEN "scale=" \o ToString(cfg.scale[1]) \o ":" \o ToString(cfg.scale[2])
             \o ":flags=bicubic"
    ELSE ""

\* Variant: the audio stream is mapped from input 1 even when a mix exists.
BuildMappings_AlwaysDirect(cfg, has_audio_filter) ==
    << "-map", "0:v" >>
    \o (IF cfg.system_audio_enabled \/ cfg.mic_enabled
        THEN << "-map", "1:a" >>
        ELSE << >>)

\* CommandBuilder._build_mappings
BuildMappings(cfg, has_audio_filter) ==
    << "-map", "0:v" >>
    \o (IF has_audio_filter THEN << "-map", "[aout]" >>
        ELSE IF cfg.system_audio_enabled \/ cfg.mic_enabled
        THEN << "-map", "1:a" >>
        ELSE << >>)

\* -b:v, -maxrate and -bufsize of the configured rates.
BitrateFlags(cfg) ==
    << "-b:v", Kbps(cfg.bitrate), "-maxrate", Kbps(cfg.max_bitrate),
       "-bufsize", Kbps(cfg.buffer_size) >>

\* CommandBuilder._build_nvenc_encoder
BuildNvencEncoder(cfg, encoder) ==
    << "-c:v", encoder, "-preset", cfg.preset, "-tune", "hq" >>
    \o (CASE cfg.rate_control = "cbr" ->
                << "-rc", "cbr" >> \o BitrateFlags(cfg)
          [] cfg.rate_control = "vbr" ->
                << "-rc", "vbr", "-b:v", Kbps(cfg.bitrate),
                   "-maxrate", Kbps(cfg.max_bitrate) >>
          [] cfg.rate_control = "cq" ->
                << "-rc", "constqp", "-cq", ToString(cfg.crf) >>
          [] OTHER -> << >>)
    \o << "-g", ToString(cfg.keyframe_interval) >>
    \o (IF ENCODERS[encoder].codec # "av1"
        THEN << "-bf", "2", "-spatial-aq", "1", "-aq-strength", "8" >>
        ELSE << >>)
    \o (IF ENCODERS[encoder].codec = "h264"
        THEN << "-profile:v", cfg.profile >>
        ELSE << >>)
    \o << "-pix_fmt", "yuv420p" >>

\* CommandBuilder._build_qsv_encoder
BuildQsvEncoder(cfg, encoder) ==
    << "-c:v", encoder, "-preset:v", cfg.preset >>
    \o (IF cfg.rate_control = "cbr" THEN BitrateFlags(cfg)
        ELSE << "-global_quality", "26" >>)
    \o << "-look_ahead", "1", "-g", ToString(cfg.keyframe_interval),
          "-pix_fmt", "nv12" >>

\* CommandBuilder._build_amf_encoder
BuildAmfEncoder(cfg, encoder) ==
    << "-c:v", encoder, "-quality", cfg.preset >>
    \o (IF cfg.rate_control = "cbr"
        THEN << "-rc", "cbr", "-vb", Kbps(cfg.bitrate) >>
        ELSE << "-rc", "vbr_peak", "-vb", Kbps(cfg.bitrate) >>)
    \o << "-g", ToString(cfg.keyframe_interval), "-pix_fmt", "yuv420p" >>

\* CommandBuilder._build_libx264_encoder
BuildLibx264Encoder(cfg) ==
    << "-c:v", "libx264", "-preset", cfg.preset >>
    \o (IF cfg.rate_control = "crf" THEN << "-crf", ToString(cfg.crf) >>
        ELSE BitrateFlags(cfg))
    \o << "-profile:v", cfg.profile, "-g", ToString(cfg.keyframe_interval),
          "-pix_fmt", "yuv420p" >>

\* CommandBuilder._build_libx265_encoder
BuildLibx265Encoder(cfg) ==
    << "-c:v", "libx265", "-preset", cfg.preset >>
    \o (IF cfg.rate_control = "crf" THEN << "-crf", ToString(cfg.crf) >>
        ELSE BitrateFlags(cfg))
    \o << "-g", ToString(cfg.keyframe_interval), "-pix_fmt", "yuv420p" >>

\* CommandBuilder._build_libaom_encoder
BuildLibaomEncoder(cfg) ==
    << "-c:v", "libaom-av1", "-cpu-used", "5" >>
    \o (IF cfg.rate_control = "crf" THEN << "-crf", ToString(cfg.crf) >>
        ELSE << "-b:v", Kbps(cfg.bitrate) >>)
    \o << "-g", ToString(cfg.keyframe_interval), "-pix_fmt", "yuv420p" >>

\* CommandBuilder._build_libsvtav1_encoder
BuildLibsvtav1Encoder(cfg) ==
    << "-c:v", "libsvtav1", "-preset", "6" >>
    \o (IF cfg.rate_control = "crf" THEN << "-crf", ToString(cfg.crf) >>
        ELSE BitrateFlags(cfg))
    \o << "-g", ToString(cfg.keyframe_interval), "-pix_fmt", "yuv420p" >>

\* CommandBuilder._build_software_encoder
BuildSoftwareEncoder(cfg, encoder) ==
    CASE encoder = "libx264" -> BuildLibx264Encoder(cfg)
      [] encoder = "libx265" -> BuildLibx265Encoder(cfg)
      [] encoder = "libsvtav1" -> BuildLibsvtav1Encoder(cfg)
      [] OTHER -> BuildLibaomEncoder(cfg)

\* The branch "if not encoder" of _build_video_encoder.
Fallback(cfg) == BuildLibx264Encoder(cfg)

\* CommandBuilder._build_video_encoder
BuildVideoEncoder(cfg) ==
    LET encoder == IF cfg.encoder # NoEncoder THEN cfg.encoder
                   ELSE GetEncoderByName(cfg.encoder_name)
    IN  IF encoder = NoEncoder THEN Fallback(cfg)
        ELSE CASE ENCODERS[encoder].vendor = "nvidia" ->
                      BuildNvencEncoder(cfg, encoder)
               [] ENCODERS[encoder].vendor = "intel" ->
                      BuildQsvEncoder(cfg, encoder)
               [] ENCODERS[encoder].vendor = "amd" ->
                      BuildAmfEncoder(cfg, encoder)
               [] OTHER -> BuildSoftwareEncoder(cfg, encoder)

\* Variant: the audio encoder arguments are there whatever is enabled.
BuildAudioEncoder_Always(cfg) ==
    << "-c:a", "aac", "-b:a", Kbps(cfg.audio_bitrate),
       "-ar", ToString(cfg.audio_sample_rate),
       "-ac", ToString(cfg.audio_channels) >>

\* CommandBuilder._build_audio_encoder
BuildAudioEncoder(cfg) ==
    IF ~cfg.system_audio_enabled /\ ~cfg.mic_enabled THEN << >>
    ELSE << "-c:a", "aac", "-b:a", Kbps(cfg.audio_bitrate),
            "-ar", ToString(cfg.audio_sample_rate),
            "-ac", ToString(cfg.audio_channels) >>

\* CommandBuilder._build_container_options
BuildContainerOptions(cfg) ==
    IF cfg.container = "mp4" THEN << "-movflags", "+faststart" >> ELSE << >>

\* CommandBuilder._build_segment_options
BuildSegmentOptions(cfg) ==
    << "-f", "segment", "-segment_time", ToString(cfg.segment_minutes * 60),
       "-reset_timestamps", "1" >>

\* Variant: the stream mappings are put after the encoders.
BuildCommand_MapsAfterEncoders(ffmpeg_path, cfg, out_file) ==
    LET audio == BuildAudioInputs(cfg)
        video_filter == BuildVideoFilter(cfg)
    IN  << ffmpeg_path >>
        \o BuildVideoInput(cfg)
        \o audio.args
        \o (IF audio.filter_complex # ""
            THEN << "-filter_complex", audio.filter_complex >> ELSE << >>)
        \o (IF video_filter # "" THEN << "-vf", video_filter >> ELSE << >>)
        \o BuildVideoEncoder(cfg)
        \o BuildAudioEncoder(cfg)
        \o BuildMappings(cfg, audio.filter_complex # "")
        \o BuildContainerOptions(cfg)
        \o (IF cfg.segment_minutes # 0
            THEN BuildSegmentOptions(cfg) ELSE << >>)
        \o << out_file >>

\* CommandBuilder.build_command
BuildCommand(ffmpeg_path, cfg, out_file) ==
    LET audio == BuildAudioInputs(cfg)
        video_filter == BuildVideoFilter(cfg)
    IN  << ffmpeg_path >>
        \o BuildVideoInput(cfg)
        \o audio.args
        \o (IF audio.filter_complex # ""
            THEN << "-filter_complex", audio.filter_complex >> ELSE << >>)
        \o (IF video_filter # "" THEN << "-vf", video_filter >> ELSE << >>)
        \o BuildMappings(cfg, audio.filter_complex # "")
        \o BuildVideoEncoder(cfg)
        \o BuildAudioEncoder(cfg)
        \o BuildContainerOptions(cfg)
        \o (IF cfg.segment_minutes # 0
            THEN BuildSegmentOptions(cfg) ELSE << >>)
        \o << out_file >>

\* The configurations build_command is applied to.  A configuration carries
\* an encoder descriptor or, without one, an encoder name.
Regions == { << >>, << 100, 200, 1280, 720 >> }
Scales == { << >>, << 1920, 1080 >> }
EncoderChoices ==
    { << NoEncoder, n >> :
          n \in {"libx264", "no_such_encoder", "hevc_nvenc", "libaom-av1"} }
    \cup { << n, "libx264" >> :
              n \in {"h264_nvenc", "av1_nvenc", "h264_qsv", "h264_amf",
                     "libx265", "libsvtav1"} }
SystemAudioDevices == {"", "default", "Stereo Mix"}
MicDevices == {"", "Microphone"}
Containers == {"mp4", "mkv"}
SegmentMinutes == {0, 10}
BuildConfigs ==
    { [ RecordingConfig EXCEPT
          !.region = r, !.show_cursor = c, !.encoder = e[1],
          !.encoder_name = e[2], !.rate_control = rc, !.scale = sc,
          !.system_audio_enabled = sa, !.system_audio_device = sd,
          !.mic_enabled = ma, !.mic_device = md, !.normalize_audio = na,
          !.container = ct, !.segment_minutes = sm ] :
        r \in Regions, c \in BOOLEAN, e \in EncoderChoices,
        rc \in RateControl, sc \in Scales, sa \in BOOLEAN,
        sd \in SystemAudioDevices, ma \in BOOLEAN, md \in MicDevices,
        na \in BOOLEAN, ct \in Containers, sm \in SegmentMinutes }

FfmpegPath == "ffmpeg.exe"
OutputFile == "recording.mp4"
NotBuilt == << >>

\* A call of build_command(config, output_file).
BuildCommandCall ==
    /\ build_cmd = NotBuilt
    /\ build_cmd' = BuildCommand(FfmpegPath, build_config, OutputFile)
    /\ UNCHANGED build_config
    /\ UNCHANGED << recVars, envVars, detVars, bestVars, parseVars >>

\* --------------------------------------------------------- specification
InitRecorder ==
    /\ state = IDLE
    /\ process = None
    /\ config = NoConfig
    /\ output_file = None
    /\ stop_requested = FALSE
    /\ state_changed = << >>
    /\ error_occurred = << >>
    /\ published = "none"
    /\ last_call = [op |-> "none", ret |-> FALSE, at |-> IDLE]
    /\ gui_pc = "loop"
    /\ pstate = [p \in Procs |-> "unborn"]
    /\ proc_log = [p \in Procs |-> << >>]
    /\ faults = 0
    /\ poller = [p \in Procs |-> "none"]
    /\ callers = [t \in Threads |-> NotCalled]

InitDetector ==
    /\ available_encoders = {}
    /\ detected = FALSE
    /\ detect_ret = {}
    /\ listing_runs = 0
    /\ smoke_runs = {}
    /\ detect_calls = 0
    /\ last_detect = [op |-> "none", reachable |-> FALSE, listing |-> "ok",
                      advertised |-> {}, usable |-> {}]

\* No selection has been asked for.
InitBest ==
    /\ available_list = << >>
    /\ best_query = NoQuery
    /\ best_ret = "unset"

InitParse ==
    /\ stats = FreshStats
    /\ chunk = NoChunk

InitBuild ==
    /\ build_config = RecordingConfig
    /\ build_cmd = NotBuilt

Init == InitRecorder /\ InitDetector /\ InitBest /\ InitParse /\ InitBuild

Next ==
    \/ \E cfg \in Configs, o \in LaunchOutcomes : StartRecording(cfg, o)
    \/ \E wrote \in BOOLEAN : StopRecording(wrote)
    \/ GracefulWaitTimeout
    \/ TerminateWaitTimeout
    \/ \E p \in Procs, rep \in ExitReports : ProcessDied(p, rep)
    \/ \E p \in Procs, k \in FaultKinds : ProcessFault(p, k)
    \/ \E p \in Procs : LateStarted(p)
    \/ \E p \in Procs : LateFailedToStart(p)

Spec == Init /\ [][Next]_vars

\* The session under the scheduling the code relies on: a wait of
\* stop_recording that is not ended by the exit of the process times out, and
\* a process that was sent kill() exits and its exit is delivered.
Killed(p) == \E i \in 1..Len(proc_log[p]) : proc_log[p][i] = Did("kill")
KilledProcessDies(p) ==
    Killed(p) /\ \E rep \in ExitReports : ProcessDied(p, rep)
Fairness ==
    /\ WF_vars(GracefulWaitTimeout)
    /\ WF_vars(TerminateWaitTimeout)
    /\ \A p \in Procs : WF_vars(KilledProcessDies(p))
SpecFair == Spec /\ Fairness

\* ------------------------------------------- Recorder: the stats thread
\* One evaluation of the condition of update_stats's loop (line 240) by the
\* thread of launch p: the thread ends when the state it reads is not
\* Recording, whichever launch that state belongs to.
PollerCheck(p) ==
    /\ poller[p] = "check"
    /\ poller' = [poller EXCEPT ![p] =
           IF state = RECORDING THEN "write" ELSE "dead"]
    /\ UNCHANGED << recVars, last_call, gui_pc, pstate, proc_log, faults,
                    callers, detVars, funVars >>

\* The size recorded for output file f while it is being written, and the
\* seconds since start_time.
SizeOf(f) == 1024 * f
Elapsed == 1

\* The body of the loop (lines 241-248) by the thread of launch p, which
\* then sleeps for a second: it writes the size of the file self.output_file
\* names now, if that file exists, and the time since self.start_time.
PollerWrite(p, exists) ==
    /\ poller[p] = "write"
    /\ stats' = [stats EXCEPT
           !.file_size = IF output_file # None /\ exists
                         THEN SizeOf(output_file) ELSE @,
           !.duration = Elapsed]
    /\ poller' = [poller EXCEPT ![p] = "check"]
    /\ UNCHANGED << recVars, last_call, gui_pc, pstate, proc_log, faults,
                    callers, detVars, bestVars, chunk, buildVars >>

NextPoller ==
    \/ Next
    \/ \E p \in Procs : PollerCheck(p)
    \/ \E p \in Procs, exists \in BOOLEAN : PollerWrite(p, exists)

SpecPoller == Init /\ [][NextPoller]_vars

\* ------------------------------- Recorder: start_recording on two threads
\* Lines 51-58 by thread t: the reset from Error and the guard.  Nothing of
\* the class makes the guard and the assignment of line 90 one step.
StartGuard(t) ==
    /\ callers[t].pc = "call"
    /\ LET r0 == ResetFromError(Rec)
       IN  /\ SetRec(r0)
           /\ callers' = [callers EXCEPT ![t] =
                  IF CanStart(r0.state) THEN [pc |-> "passed", ret |-> "none"]
                  ELSE [pc |-> "done", ret |-> "false"]]
    /\ UNCHANGED << last_call, gui_pc, pstate, proc_log, faults, poller >>
    /\ UNCHANGED << detVars, funVars >>

\* Lines 60-104 by thread t, which has passed the guard.
StartLaunch(t, cfg, outcome) ==
    /\ callers[t].pc = "passed"
    /\ LET v == ValidateConfig(cfg)
           p == NextProc
       IN  IF v # "ok"
           THEN /\ SetRec(EmitError(Rec, v, ""))
                /\ callers' = [callers EXCEPT ![t] =
                       [pc |-> "done", ret |-> "false"]]
                /\ UNCHANGED << pstate, poller >>
           ELSE /\ p \in Procs
                /\ SetRec(Launch(Rec, cfg, p, outcome))
                /\ callers' = [callers EXCEPT ![t] =
                       [pc |-> "done",
                        ret |-> IF outcome = "started" THEN "true"
                                ELSE "false"]]
                /\ pstate' = AfterLaunch(p, outcome)
                /\ poller' = StartStatsThread(p, outcome)
    /\ UNCHANGED << last_call, gui_pc, proc_log, faults >>
    /\ UNCHANGED << detVars, funVars >>

NextConcurrentStart ==
    \/ \E t \in Threads : StartGuard(t)
    \/ \E t \in Threads, cfg \in Configs, o \in LaunchOutcomes :
           StartLaunch(t, cfg, o)

SpecConcurrentStart == Init /\ [][NextConcurrentStart]_vars

\* The detector on its own.
NextDetect ==
    \/ \E reachable \in BOOLEAN, listing \in ListingOutcomes,
          advertised \in SUBSET Advertisable,
          usable \in SUBSET (Advertisable \cap DOMAIN ENCODERS) :
            Detect(reachable, listing, advertised, usable)
    \/ \E reachable \in BOOLEAN, listing \in ListingOutcomes,
          advertised \in SUBSET Advertisable,
          usable \in SUBSET (Advertisable \cap DOMAIN ENCODERS) :
            Refresh(reachable, listing, advertised, usable)

SpecDetect == Init /\ [][NextDetect]_vars

\* get_best_encoder on its own, over every dictionary of AvailableLists.
InitBestEncoder ==
    /\ InitRecorder /\ InitDetector /\ InitParse /\ InitBuild
    /\ available_list \in AvailableLists
    /\ best_query = NoQuery
    /\ best_ret = "unset"

NextBestEncoder ==
    \E codec \in CodecTypes, prefer_hardware \in BOOLEAN :
        BestEncoderCall(codec, prefer_hardware)

SpecBestEncoder == InitBestEncoder /\ [][NextBestEncoder]_vars

\* _parse_ffmpeg_output on its own, over every chunk of Chunks.
InitParseChunk ==
    /\ InitRecorder /\ InitDetector /\ InitBest /\ InitBuild
    /\ stats \in PriorStats
    /\ chunk = NoChunk

NextParseChunk == \E text \in Chunks : ParseChunk(text)

SpecParseChunk == InitParseChunk /\ [][NextParseChunk]_vars

\* build_command on its own, over every configuration of BuildConfigs.
InitBuildCommand ==
    /\ InitRecorder /\ InitDetector /\ InitBest /\ InitParse
    /\ build_config \in BuildConfigs
    /\ build_cmd = NotBuilt

NextBuildCommand == BuildCommandCall

SpecBuildCommand == InitBuildCommand /\ [][NextBuildCommand]_vars

\* ------------------------------------------------------------ sanity
TypeOK ==
    /\ state \in RecorderState
    /\ process \in Procs \cup {None}
    /\ config \in Configs \cup {NoConfig}
    /\ output_file \in Procs \cup {None}
    /\ stop_requested \in BOOLEAN
    /\ published \in RecorderState \cup {"none"}
    /\ gui_pc \in {"loop", "wait5", "wait3"}
    /\ pstate \in [Procs -> {"unborn", "starting", "running", "finished",
                             "failed"}]
    /\ faults \in 0..MaxFaults

\* While Recording, and inside the waits of stop_recording, the handle refers
\* to a running process: the waits never see a QProcess that is not running.
HandleIsLive ==
    (state = RECORDING \/ gui_pc # "loop") =>
        /\ process # None
        /\ pstate[process] = "running"

\* =================================================================== claims
AnyStart == \E cfg \in Configs, o \in LaunchOutcomes : StartRecording(cfg, o)
AnyStop == \E wrote \in BOOLEAN : StopRecording(wrote)

\* C1: a start(config) call issued while the state is Recording or Stopping
\* returns failure and leaves the state, the process handle, the output file
\* and the stop-requested flag unchanged; it spawns no process and emits no
\* state notification.
C1_StartRejectedWhileBusy ==
    [][ (state \in {RECORDING, STOPPING} /\ AnyStart) =>
            /\ last_call' = [op |-> "start", ret |-> FALSE, at |-> state]
            /\ state' = state
            /\ process' = process
            /\ output_file' = output_file
            /\ stop_requested' = stop_requested
            /\ pstate' = pstate
            /\ state_changed' = << >> ]_vars

\* C1 witness: start() has just been refused on a session that is Recording.
C1_Witness ==
    /\ last_call = [op |-> "start", ret |-> FALSE, at |-> RECORDING]
    /\ state = RECORDING
    /\ process # None

\* C8: stop() called while the state is Idle, Stopping or Error changes
\* nothing: the state and the stop-requested flag are unchanged, no quit byte,
\* terminate or kill is sent to any process, and no state notification is
\* emitted.
C8_StopIsNoOpUnlessRecording ==
    [][ (state # RECORDING /\ AnyStop) =>
            /\ state' = state
            /\ stop_requested' = stop_requested
            /\ proc_log' = proc_log
            /\ gui_pc' = "loop"
            /\ state_changed' = << >> ]_vars

\* C8 witness: stop() has just returned with its warning on a session that is
\* Stopping (the kill was issued, the exit has not been reported yet).
C8_Witness ==
    /\ last_call = [op |-> "stop", ret |-> FALSE, at |-> STOPPING]
    /\ state = STOPPING
    /\ process # None

\* C2: once stop() has been accepted, the next state the session takes is
\* Idle; the state never becomes Error, and Error is never published, between
\* the stop request and that Idle transition, whatever notification arrives
\* during the escalation.
C2_StoppingOnlyLeadsToIdle ==
    [][ state = STOPPING =>
            /\ state' \in {STOPPING, IDLE}
            /\ \A i \in 1..Len(state_changed') :
                   state_changed'[i].state # ERROR ]_vars

\* C3: during stop() the quit byte is sent first, terminate is issued only
\* after the 5 s graceful wait timed out, kill only after terminate and the
\* further 3 s wait timed out; nothing more is done to a process once it has
\* exited.
Escalation ==
    << Did("write_q"), TimedOut(5000), Did("terminate"), TimedOut(3000),
       Did("kill") >>

IsPrefix(a, b) == Len(a) <= Len(b) /\ a = SubSeq(b, 1, Len(a))

BeforeExit(log) ==
    IF Len(log) > 0 /\ log[Len(log)] = Did("exited")
    THEN SubSeq(log, 1, Len(log) - 1)
    ELSE log

\* The same when the write of the quit byte failed.
EscalationUnwritten ==
    << Did("write_q_failed") >> \o Tail(Escalation)

C3_EscalationInOrder ==
    \A p \in Procs :
        \/ IsPrefix(BeforeExit(proc_log[p]), Escalation)
        \/ IsPrefix(BeforeExit(proc_log[p]), EscalationUnwritten)

\* C3 witness: a process ignored the quit byte and terminate, and kill() has
\* just been issued to it.
C3_Witness ==
    /\ state = STOPPING
    /\ process # None
    /\ proc_log[process] = Escalation

\* C4: when the engine process exits while the session is Recording and no
\* stop was requested, exit code 0 moves the state to Idle and any other exit
\* code moves it to Error and emits an error notification carrying the exit
\* code; either way the new state is published to observers.
C4_ExitWhileRecording ==
    [][ \A p \in Procs, rep \in ExitReports :
          (state = RECORDING /\ ~stop_requested /\ ProcessDied(p, rep)) =>
            /\ state' = IF rep.exit_code = 0 THEN IDLE ELSE ERROR
            /\ rep.exit_code # 0 =>
                 \E i \in 1..Len(error_occurred') :
                     error_occurred'[i] = << "FFmpeg exited with code ",
                                             ToString(rep.exit_code) >>
            /\ state_changed' # << >>
            /\ state_changed'[Len(state_changed')].state = state'
            /\ published' = state' ]_vars

\* C4 witness: the process of a Recording session has just exited with code 1
\* on its own.
C4_Witness ==
    /\ last_call = [op |-> "finished", ret |-> FALSE, at |-> RECORDING]
    /\ ~stop_requested
    /\ state = ERROR
    /\ error_occurred = << << "FFmpeg exited with code ", "1" >> >>

\* C5: if the spawned process does not report started within the launch
\* timeout, also when the launcher raises a failed-to-start fault during that
\* wait, start() returns failure, the state does not become Recording, and
\* the state is Idle when start() returns.
C5_LaunchFailureLeavesIdle ==
    [][ \A cfg \in Configs, o \in {"failed", "timeout"} :
          (StartRecording(cfg, o) /\ pstate' # pstate) =>
            /\ last_call'.ret = FALSE
            /\ state' # RECORDING
            /\ state' = IDLE ]_vars

\* C6: when start(config) fails validation, no process is spawned and the
\* state after the call equals the state before the call, in every state in
\* which the call can be issued, Error included.
C6_InvalidConfigChangesNothing ==
    [][ \A cfg \in Configs, o \in LaunchOutcomes :
          (ValidateConfig(cfg) # "ok" /\ StartRecording(cfg, o)) =>
            /\ pstate' = pstate
            /\ state' = state ]_vars

\* C7: start(config) with no encoder descriptor and an encoder name that is
\* not a key of the catalog returns failure, spawns no process and does not
\* move the session to Recording.
C7_UnknownEncoderNameRejected ==
    [][ \A cfg \in Configs, o \in LaunchOutcomes :
          ( /\ cfg.encoder = NoEncoder
            /\ GetEncoderByName(cfg.encoder_name) = NoEncoder
            /\ StartRecording(cfg, o) ) =>
            /\ last_call'.ret = FALSE
            /\ pstate' = pstate
            /\ (state' = RECORDING => state = RECORDING) ]_vars

DetectInputs ==
    [ reachable : BOOLEAN, listing : ListingOutcomes,
      advertised : SUBSET Advertisable,
      usable : SUBSET (Advertisable \cap DOMAIN ENCODERS) ]

\* C9: after a first detect() call, every further detect() call returns the
\* result of the latest detection without running the capability listing or
\* a smoke test again, whatever the engine's reachability was; refresh()
\* re-runs detection, so a reachable engine is listed again.
C9_DetectIsCached ==
    [][ \A i \in DetectInputs :
          /\ (detect_calls >= 1
                /\ Detect(i.reachable, i.listing, i.advertised, i.usable)) =>
               /\ detect_ret' = detect_ret
               /\ listing_runs' = 0
               /\ smoke_runs' = {}
          /\ (i.reachable
                /\ Refresh(i.reachable, i.listing, i.advertised, i.usable)) =>
               listing_runs' = 1 ]_vars

\* C10: after any sequence of detect() and refresh() calls, whatever the
\* engine's reachability, its advertised encoders, the smoke tests' outcomes
\* or an error during detection, the returned set is the detector's available
\* set, contains libx264 and so is not empty.
C10_BaselineAlwaysAvailable ==
    detect_calls > 0 =>
        /\ detect_ret = available_encoders
        /\ "libx264" \in detect_ret
        /\ detect_ret # {}

\* C10 witness: a refresh() on a reachable engine whose listing names libx264
\* but whose libx264 smoke test failed has returned a set with libx264.
C10_Witness ==
    /\ last_detect.op = "refresh"
    /\ last_detect.reachable
    /\ last_detect.listing = "ok"
    /\ "libx264" \in last_detect.advertised
    /\ "libx264" \notin last_detect.usable
    /\ smoke_runs = {"libx264"}
    /\ detect_ret = {"libx264"}

\* C11: after a detection run (a refresh(), or a detect_encoders() that found
\* nothing cached) on a reachable engine, every available encoder other than
\* the forced libx264 was listed by that run's "ffmpeg -encoders" and passed
\* that run's smoke test, so a candidate whose test fails and an entry of an
\* earlier run are both gone; after a run on an unreachable engine only
\* software encoders are available; a cached call leaves the set alone.
C11_AvailableWereTestedInLastRun ==
    [][ LET i == last_detect'
            ran == i.op = "refresh" \/ ~detected
            passed == IF i.listing = "ok"
                      THEN i.advertised \cap i.usable
                      ELSE {}
        IN  /\ (ran /\ i.reachable) =>
                   /\ available_encoders' \ {"libx264"} \subseteq passed
                   /\ available_encoders' \subseteq DOMAIN ENCODERS
            /\ (ran /\ ~i.reachable) =>
                   \A n \in available_encoders' :
                       ENCODERS[n].vendor = "software"
            /\ ~ran => available_encoders' = available_encoders
      ]_vars

\* A refresh() has run after an earlier call, the engine listed h264_nvenc,
\* its smoke test failed, and h264_nvenc is not available.
C11_Witness ==
    /\ last_detect.op = "refresh"
    /\ detect_calls >= 2
    /\ last_detect.reachable
    /\ last_detect.listing = "ok"
    /\ "h264_nvenc" \in last_detect.advertised \ last_detect.usable
    /\ "h264_nvenc" \in smoke_runs
    /\ "h264_nvenc" \notin available_encoders

\* What the claim calls the order of the vendors.
C12_Rank(vendor) ==
    CASE vendor = "nvidia" -> 1
      [] vendor = "intel" -> 2
      [] vendor = "amd" -> 3
      [] vendor = "software" -> 4

C12_SameCodec ==
    { available_list[i] : i \in { j \in 1..Len(available_list) :
          ENCODERS[available_list[j]].codec = best_query.codec } }

\* C12: get_best_encoder(codec, prefer_hardware = True) returns an available
\* encoder of that codec such that no available encoder of that codec has a
\* vendor earlier in NVIDIA > Intel > AMD > Software, and it returns None
\* exactly when no available encoder has that codec.
C12_BestIsFirstVendor ==
    (best_ret # "unset" /\ best_query.prefer_hardware) =>
        /\ best_ret = NoEncoder <=> C12_SameCodec = {}
        /\ best_ret # NoEncoder =>
               /\ best_ret \in C12_SameCodec
               /\ \A m \in C12_SameCodec :
                      C12_Rank(ENCODERS[best_ret].vendor)
                          <= C12_Rank(ENCODERS[m].vendor)

\* The AMD encoder was inserted first, the NVIDIA one last, and the H.264
\* query with hardware preferred returned the NVIDIA one.
C12_Witness ==
    /\ available_list = << "h264_amf", "libx264", "h264_nvenc" >>
    /\ best_query = [codec |-> "h264", prefer_hardware |-> TRUE]
    /\ best_ret = "h264_nvenc"

C13_Has(text, key) == \E i \in 1..Len(text) : text[i].key = key

\* C13: parsing a chunk changes a stats field only if the token of that
\* field (fps, bitrate, time, drop) is in the chunk; file size and encoder
\* are never touched; a chunk whose only recognised token is bitrate changes
\* the bitrate alone; a chunk with no recognised token changes nothing; and
\* the parse reports no error and leaves the session state alone.
C13_ParseOverwritesOnlySeenTokens ==
    [][ (chunk = NoChunk /\ chunk' # NoChunk) =>
          LET Seen(key) == C13_Has(chunk', key)
          IN  /\ stats'.fps # stats.fps => Seen("fps")
              /\ stats'.bitrate # stats.bitrate => Seen("bitrate")
              /\ stats'.duration # stats.duration => Seen("time")
              /\ stats'.dropped_frames # stats.dropped_frames => Seen("drop")
              /\ stats'.file_size = stats.file_size
              /\ stats'.encoder_used = stats.encoder_used
              /\ (~Seen("fps") /\ ~Seen("time") /\ ~Seen("drop")) =>
                     stats' = [stats EXCEPT !.bitrate = stats'.bitrate]
              /\ (~Seen("fps") /\ ~Seen("time") /\ ~Seen("drop")
                     /\ ~Seen("bitrate")) => stats' = stats
              /\ error_occurred' = << >>
              /\ state' = state
      ]_vars

\* A chunk holding only "bitrate=1200kbits/s" went through the parser of a
\* session under way and the bitrate alone changed.
C13_Witness ==
    /\ chunk = << Tok("bitrate", TRUE, 0, 0, 1200) >>
    /\ stats = [RunningStats EXCEPT !.bitrate = 1200]

\* ---- build_command: what a built argument sequence contains
Has(cmd, arg) == \E i \in 1..Len(cmd) : cmd[i] = arg
Count(cmd, arg) == Cardinality({ i \in 1..Len(cmd) : cmd[i] = arg })
\* The flag is in the sequence and is followed by that value.
HasPair(cmd, flag, value) ==
    \E i \in 1..(Len(cmd) - 1) : cmd[i] = flag /\ cmd[i + 1] = value
Built == build_cmd # NotBuilt
\* Input stanzas after the video input, which is input 0.
AudioInputStanzas(cmd) == Count(cmd, "-i") - 1

\* C14: in a built sequence the audio stream is mapped from input 1, with no
\* filter graph stanza, exactly when exactly one audio input stanza was
\* emitted; and when no audio input stanza was emitted, also because an
\* enabled source had an empty or "default" device name, there is no audio
\* mapping at all.
C14_DirectMapIffOneAudioInput ==
    Built =>
        /\ (HasPair(build_cmd, "-map", "1:a")
               /\ ~Has(build_cmd, "-filter_complex"))
           <=> AudioInputStanzas(build_cmd) = 1
        /\ AudioInputStanzas(build_cmd) = 0 =>
               /\ ~HasPair(build_cmd, "-map", "1:a")
               /\ ~HasPair(build_cmd, "-map", "[aout]")

\* The value that follows the first occurrence of the flag.
FlagValue(cmd, flag) ==
    cmd[(CHOOSE i \in 1..Len(cmd) :
             cmd[i] = flag /\ \A j \in 1..(i - 1) : cmd[j] # flag) + 1]

\* The mix expressions over exactly the pads [1:a] and [2:a], bound to [aout].
C15_TwoPadMixes ==
    { "[1:a][2:a]amix=inputs=2:duration=longest:dropout_transition=3[aout]",
      "[1:a][2:a]amix=inputs=2:duration=longest:dropout_transition=3"
          \o ",dynaudnorm=f=150:g=31[aout]" }

C15_Mixed ==
    /\ Count(build_cmd, "-filter_complex") = 1
    /\ FlagValue(build_cmd, "-filter_complex") \in C15_TwoPadMixes
    /\ HasPair(build_cmd, "-map", "[aout]")
    /\ ~HasPair(build_cmd, "-map", "1:a")
    /\ ~HasPair(build_cmd, "-map", "2:a")

\* C15 as stated: for every configuration with system audio and microphone
\* both enabled, the built sequence has exactly one filter graph stanza, its
\* mix expression references exactly two input audio pads, and the audio
\* mapping references the mix output pad and no raw input.
C15_BothEnabledAreMixed ==
    (Built /\ build_config.system_audio_enabled /\ build_config.mic_enabled)
        => C15_Mixed

\* C15 amended: the same, for the configurations in which both enabled
\* sources also name a device (the system audio device neither empty nor
\* "default", the microphone device not empty).
C15_BothConfiguredAreMixed ==
    ( /\ Built
      /\ build_config.system_audio_enabled
      /\ build_config.mic_enabled
      /\ build_config.system_audio_device \notin {"", "default"}
      /\ build_config.mic_device # "" )
        => C15_Mixed

\* A sequence was built for both sources enabled and named, without
\* normalisation, and it holds the two-pad mix.
C15_Witness ==
    /\ Built
    /\ build_config.system_audio_enabled
    /\ build_config.mic_enabled
    /\ build_config.system_audio_device = "Stereo Mix"
    /\ build_config.mic_device = "Microphone"
    /\ ~build_config.normalize_audio
    /\ HasPair(build_cmd, "-filter_complex",
               "[1:a][2:a]amix=inputs=2:duration=longest:dropout_transition=3[aout]")

\* The encoder a built configuration resolves to: its descriptor, or the
\* catalog entry of its name, or NoEncoder.
Resolved ==
    IF build_config.encoder # NoEncoder THEN build_config.encoder
    ELSE GetEncoderByName(build_config.encoder_name)
Mode == build_config.rate_control
HasBitrate == HasPair(build_cmd, "-b:v", Kbps(build_config.bitrate))
HasMaxrate == HasPair(build_cmd, "-maxrate", Kbps(build_config.max_bitrate))
HasBufsize == HasPair(build_cmd, "-bufsize", Kbps(build_config.buffer_size))

\* C16: for an NVIDIA encoder, CBR gives -rc cbr with bitrate, maxrate and
\* bufsize; VBR gives -rc vbr with bitrate and maxrate and no bufsize; CQ and
\* CRF both give -rc constqp with the constant-quality value; the B-frame
\* and adaptive-quantisation flags are there for H264 and H265 and not for
\* AV1; the profile flag is there only for H264.
C16_NvidiaFlags ==
    (Built /\ Resolved # NoEncoder /\ ENCODERS[Resolved].vendor = "nvidia")
    => LET codec == ENCODERS[Resolved].codec
       IN  /\ Mode = "cbr" =>
                  /\ HasPair(build_cmd, "-rc", "cbr")
                  /\ HasBitrate /\ HasMaxrate /\ HasBufsize
           /\ Mode = "vbr" =>
                  /\ HasPair(build_cmd, "-rc", "vbr")
                  /\ HasBitrate /\ HasMaxrate
                  /\ ~Has(build_cmd, "-bufsize")
           /\ Mode \in {"cq", "crf"} =>
                  /\ HasPair(build_cmd, "-rc", "constqp")
                  /\ HasPair(build_cmd, "-cq", ToString(build_config.crf))
           /\ codec \in {"h264", "h265"} =>
                  /\ HasPair(build_cmd, "-bf", "2")
                  /\ HasPair(build_cmd, "-spatial-aq", "1")
                  /\ HasPair(build_cmd, "-aq-strength", "8")
           /\ codec = "av1" =>
                  /\ ~Has(build_cmd, "-bf")
                  /\ ~Has(build_cmd, "-spatial-aq")
                  /\ ~Has(build_cmd, "-aq-strength")
           /\ Has(build_cmd, "-profile:v") <=> codec = "h264"

\* The part of C16 that leaves CRF out: it holds of the code.
C16_NvidiaFlagsButCrf ==
    Mode # "crf" => C16_NvidiaFlags

\* C17: for each of libx264, libx265, libsvtav1 and libaom-av1, CBR and VBR
\* both give bitrate, maxrate and bufsize, and CRF and CQ both give the CRF
\* value flag and no bitrate flag.
C17_SoftwareFlags ==
    (Built /\ Resolved # NoEncoder /\ ENCODERS[Resolved].vendor = "software")
    => /\ Mode \in {"cbr", "vbr"} =>
              HasBitrate /\ HasMaxrate /\ HasBufsize
       /\ Mode \in {"crf", "cq"} =>
              /\ HasPair(build_cmd, "-crf", ToString(build_config.crf))
              /\ ~Has(build_cmd, "-b:v")
              /\ ~Has(build_cmd, "-maxrate")
              /\ ~Has(build_cmd, "-bufsize")

\* The part of C17 that holds of the code: CRF on every software encoder,
\* CBR and VBR on all of them but libaom-av1.
C17_SoftwareFlagsButCqAndLibaom ==
    (Mode # "cq" /\ ~(Resolved = "libaom-av1" /\ Mode \in {"cbr", "vbr"}))
        => C17_SoftwareFlags

\* C18: a configuration without encoder descriptor whose encoder name is not
\* in the catalog still builds, and its video encoder stanza is the libx264
\* one, carrying the rate-control flags of the configured mode: bitrate,
\* maxrate and bufsize for CBR and VBR, the CRF value for CRF and CQ.
C18_UnknownEncoderFallsBack ==
    (Built /\ Resolved = NoEncoder) =>
        /\ Count(build_cmd, "-c:v") = 1
        /\ HasPair(build_cmd, "-c:v", "libx264")
        /\ HasPair(build_cmd, "-preset", build_config.preset)
        /\ HasPair(build_cmd, "-profile:v", build_config.profile)
        /\ Mode \in {"cbr", "vbr"} =>
               /\ HasBitrate /\ HasMaxrate /\ HasBufsize
               /\ ~Has(build_cmd, "-crf")
        /\ Mode \in {"crf", "cq"} =>
               /\ HasPair(build_cmd, "-crf", ToString(build_config.crf))
               /\ ~Has(build_cmd, "-b:v")

\* The part of C18 that holds of the code: every mode but CQ.
C18_UnknownEncoderFallsBackButCq ==
    Mode # "cq" => C18_UnknownEncoderFallsBack

\* The stanza an argument opens or belongs to, 0 for a value that marks
\* none: 1 video input, 2 audio inputs, 3 filter graph, 4 video filter,
\* 5 mappings, 6 video encoder, 7 audio encoder, 8 container flags,
\* 9 segmentation.
C19_Stanza(arg) ==
    CASE arg \in {"gdigrab", "-framerate", "-draw_mouse", "desktop"} -> 1
      [] arg \in {"dshow", "wasapi"} -> 2
      [] arg = "-filter_complex" -> 3
      [] arg = "-vf" -> 4
      [] arg = "-map" -> 5
      [] arg \in {"-c:v", "-g", "-pix_fmt"} -> 6
      [] arg \in {"-c:a", "-b:a", "-ar", "-ac"} -> 7
      [] arg = "-movflags" -> 8
      [] arg \in {"segment", "-segment_time", "-reset_timestamps"} -> 9
      [] OTHER -> 0

\* C19: the stanzas of a built sequence come in the order video input,
\* audio inputs, filter graph, video filter, mappings, video encoder, audio
\* encoder, container flags, segmentation, whichever of the optional ones
\* are there, and the output path is the last element and only the last.
C19_StanzasInOrder ==
    Built =>
        /\ LET marks == SelectSeq([i \in 1..Len(build_cmd) |->
                                      C19_Stanza(build_cmd[i])],
                                  LAMBDA n : n # 0)
           IN  \A i \in 1..(Len(marks) - 1) : marks[i] <= marks[i + 1]
        /\ build_cmd[Len(build_cmd)] = OutputFile
        /\ Count(build_cmd, OutputFile) = 1
        /\ Has(build_cmd, "gdigrab") /\ Has(build_cmd, "-map")
        /\ Has(build_cmd, "-c:v")

\* A sequence was built that holds all nine stanzas.
C19_Witness ==
    /\ Built
    /\ \A n \in 1..9 :
           \E i \in 1..Len(build_cmd) : C19_Stanza(build_cmd[i]) = n

\* C20: for a configuration with a capture rectangle, the cursor hidden,
\* libx264 in CRF mode and no audio source enabled, the built sequence holds
\* the offset and size flags with the rectangle's values, -draw_mouse 0,
\* -crf with the configured value, no audio encoder stanza and no filter
\* graph stanza.
C20_RegionCrfNoAudio ==
    ( /\ Built
      /\ build_config.region # << >>
      /\ ~build_config.show_cursor
      /\ Resolved = "libx264"
      /\ Mode = "crf"
      /\ ~build_config.system_audio_enabled
      /\ ~build_config.mic_enabled )
    => /\ HasPair(build_cmd, "-offset_x", ToString(build_config.region[1]))
       /\ HasPair(build_cmd, "-offset_y", ToString(build_config.region[2]))
       /\ HasPair(build_cmd, "-video_size",
                  ToString(build_config.region[3]) \o "x"
                      \o ToString(build_config.region[4]))
       /\ HasPair(build_cmd, "-draw_mouse", "0")
       /\ HasPair(build_cmd, "-crf", ToString(build_config.crf))
       /\ ~Has(build_cmd, "-c:a")
       /\ ~Has(build_cmd, "-b:a")
       /\ ~Has(build_cmd, "-filter_complex")

\* Such a sequence was built, for the rectangle (100, 200, 1280, 720) and the
\* CRF value 23.
C20_Witness ==
    /\ Built
    /\ build_config.region = << 100, 200, 1280, 720 >>
    /\ ~build_config.show_cursor
    /\ Resolved = "libx264"
    /\ Mode = "crf"
    /\ ~build_config.system_audio_enabled
    /\ ~build_config.mic_enabled
    /\ HasPair(build_cmd, "-offset_x", "100")
    /\ HasPair(build_cmd, "-offset_y", "200")
    /\ HasPair(build_cmd, "-video_size", "1280x720")
    /\ HasPair(build_cmd, "-crf", "23")

\* C21: for every configuration, the default one included, the built
\* sequence starts with the engine path, contains the output path, and
\* selects d3d11grab as the input format of the video capture input.
C21_VideoInputIsD3d11grab ==
    Built =>
        /\ build_cmd[1] = FfmpegPath
        /\ Has(build_cmd, OutputFile)
        /\ build_cmd[2] = "-f"
        /\ build_cmd[3] = "d3d11grab"

\* The part of C21 that holds of the code: engine path first, output path
\* present, and an input format selector right after the engine path.
C21_PathsAndSelector ==
    Built =>
        /\ build_cmd[1] = FfmpegPath
        /\ Has(build_cmd, OutputFile)
        /\ build_cmd[2] = "-f"
        /\ build_cmd[3] = "gdigrab"

\* The -f selectors that belong to an input: those before the last -i.
InputFormatSelectors(cmd) ==
    { i \in 1..Len(cmd) :
          cmd[i] = "-f" /\ \E j \in (i + 1)..Len(cmd) : cmd[j] = "-i" }

\* C22: with system audio and microphone both enabled and both device names
\* set, the built sequence holds exactly three input format selectors, one
\* for the video and two for the audio inputs, and both audio input stanzas
\* use the wasapi input format.
C22_TwoWasapiInputs ==
    ( /\ Built
      /\ build_config.system_audio_enabled
      /\ build_config.mic_enabled
      /\ build_config.system_audio_device \notin {"", "default"}
      /\ build_config.mic_device # "" )
    => /\ Cardinality(InputFormatSelectors(build_cmd)) = 3
       /\ Count(build_cmd, "wasapi") = 2
       /\ \A i \in InputFormatSelectors(build_cmd) :
              i > 2 => build_cmd[i + 1] = "wasapi"

\* The part of C22 that holds of the code: three input format selectors.
C22_ThreeSelectors ==
    ( /\ Built
      /\ build_config.system_audio_enabled
      /\ build_config.mic_enabled
      /\ build_config.system_audio_device \notin {"", "default"}
      /\ build_config.mic_device # "" )
    => Cardinality(InputFormatSelectors(build_cmd)) = 3

\* ---- the session and its processes
Running == { p \in Procs : pstate[p] = "running" }

\* C24: at most one engine process spawned by the session is running at any
\* time: start() spawns none while an earlier one still runs, also after a
\* launch that timed out and after a fault notification that moved the state
\* to Error while the process kept running.
C24_AtMostOneProcessRunning == Cardinality(Running) <= 1

\* C25: whenever the session emits a state notification of Idle or Error
\* from an exit or a fault of a process, the process handle is already None.
C25_HandleClearedBeforePublish ==
    last_call.op \in {"finished", "error"} =>
        \A i \in 1..Len(state_changed) :
            state_changed[i].state \in {IDLE, ERROR}
                => state_changed[i].process = None

\* C29: whenever the GUI thread is in the event loop, the state the
\* observers were told last is the state of the session (before the first
\* notification, Idle): every change of the state has been announced, the
\* reset of Error to Idle by start() included.
C29_PublishedIsState ==
    gui_pc = "loop" =>
        \/ published = state
        \/ published = "none" /\ state = IDLE

C30_FromProcess(p) ==
    \/ \E rep \in ExitReports : ProcessDied(p, rep)
    \/ \E k \in FaultKinds : ProcessFault(p, k)
    \/ LateFailedToStart(p)

\* C30: an exit or fault notification of a process that is not the one the
\* handle refers to changes neither the state nor the handle of a session
\* that is Recording.
C30_StaleNotificationIgnored ==
    [][ \A p \in Procs :
          (state = RECORDING /\ process # None /\ p # process
              /\ C30_FromProcess(p))
          => (state' = state /\ process' = process) ]_vars

\* C27: when the quit byte could not be written during stop(), the session
\* goes on to terminate() without first waiting the 5 s graceful window.
C27_NoGracefulWaitAfterFailedWrite ==
    \A p \in Procs :
        \A i \in 1..(Len(proc_log[p]) - 1) :
            proc_log[p][i] = Did("write_q_failed")
                => proc_log[p][i + 1] # TimedOut(GracefulWaitMs)

\* C28: a session that is Stopping eventually becomes Idle, when the waits
\* of stop() time out and a killed process exits and its exit is delivered.
C28_StoppingLeadsToIdle == (state = STOPPING) ~> (state = IDLE)

\* The first half of C28: the session does not stay Stopping.
C28_StoppingIsLeft == (state = STOPPING) ~> (state # STOPPING)

\* C23: when two start() calls run concurrently on a session in Idle, at
\* most one of them is past the Idle guard, at most one returns success and
\* at most one engine process is started.
C23_OneStartPassesGuard ==
    /\ Cardinality({ t \in Threads : callers[t].pc = "passed" }) <= 1
    /\ Cardinality({ t \in Threads : callers[t].ret = "true" }) <= 1
    /\ Cardinality({ p \in Procs : pstate[p] = "running" }) <= 1

\* C26: the poller of an earlier recording is never still running during a
\* later recording: once a later launch has its poller, the poller of an
\* earlier launch does not pass the Recording test of its loop again.
C26_EarlierPollerEnds ==
    [][\A p \in Procs :
          (poller[p] = "check" /\ poller'[p] = "write")
              => ~(\E q \in Procs : q > p /\ poller[q] # "none")]_vars

====
